---- MODULE Spec2Model ----
(***************************************************************************)
(* Model of the windowing and resampling engine of                         *)
(* src/inference/Dataset_processing.py (class DatasetProcessing).          *)
(*                                                                         *)
(* A table is modelled by provenance.  The input table self.df has rows    *)
(* labelled 0..n-1 (the index after reset_index), sorted by                *)
(* (serial_number, date).  Every shift-and-concatenate step puts a whole   *)
(* shifted copy of self.df to the left of the working table, so a working  *)
(* table is a sequence of rows, each with its index label and, per block   *)
(* of columns (leftmost first), the input row whose values the block holds *)
(* (NA when the block is missing in that row).                             *)
(***************************************************************************)
EXTENDS Integers, Sequences, FiniteSets

(***************************************************************************)
(* Bounds of the model.                                                    *)
(***************************************************************************)
MaxRows == 12        \* rows of the input table of a build
MaxWindow == 6       \* window_dim of a build
MaxTail == 1         \* trailing rows of a device with validate_val = 1
MaxFeatures == 1     \* numeric feature columns of the input table
MaxGroup == 16       \* rows of a group handed to under_sample alone
MaxFactor == 5       \* down_factor handed to under_sample alone
MaxDim == 12         \* window_dim handed to the depth computation alone
MaxNumber == 50      \* n handed to factors alone
MaxColumns == 3      \* columns of a table handed to rename_columns alone
MaxTableRows == 2    \* rows of a table handed to preprocess_dataset alone
MaxArrayRows == 3    \* rows of an array handed to arrays_to_matrix alone
MaxRowLength == 8    \* columns of an array handed to arrays_to_matrix alone
MaxDepth == 4        \* wind_dim handed to arrays_to_matrix alone
MaxCopies == 10      \* window_dim of the builds with many stacked copies
MaxEpochs == 7       \* self.epochs of a trainer
MaxScore == 1        \* the F1 of an epoch is one of 0..MaxScore
MaxRuns == 3         \* calls of classification() in one behaviour

(***************************************************************************)
(* Program constants.                                                      *)
(***************************************************************************)
Full == 1            \* overlap == 1
Dynamic == 2         \* overlap == 2
Hybrid == 3          \* any other overlap value
TailGuard == 7       \* the stop -7 of the slice in under_sample
LabelColumns == 3    \* failure, predict_val, validate_val
IdColumns == 4       \* serial_number, date, model, capacity_bytes

NA == 0 - 1          \* a missing value (NaN)

(***************************************************************************)
(* Column names.  A name is the sequence of the code points of its         *)
(* characters.                                                             *)
(***************************************************************************)
date == <<100, 97, 116, 101>>

serial_number == <<115, 101, 114, 105, 97, 108, 95, 110, 117, 109, 98, 101, 114>>

capacity_bytes == <<99, 97, 112, 97, 99, 105, 116, 121, 95, 98, 121, 116, 101, 115>>

model == <<109, 111, 100, 101, 108>>

failure == <<102, 97, 105, 108, 117, 114, 101>>

predict_val == <<112, 114, 101, 100, 105, 99, 116, 95, 118, 97, 108>>

validate_val == <<118, 97, 108, 105, 100, 97, 116, 101, 95, 118, 97, 108>>

\* The name reset_index gives the column it makes of an unnamed index.
index == <<105, 110, 100, 101, 120>>

\* str(k)
RECURSIVE Digits(_)
Digits(k) ==
    IF k < 10 THEN <<48 + k>> ELSE Digits(k \div 10) \o <<48 + (k % 10)>>

\* The feature columns of an input table: smart_1_raw, smart_2_raw, ...
FeatureColumns(count) ==
    [j \in 1..count |->
        <<115, 109, 97, 114, 116, 95>> \o Digits(j) \o <<95, 114, 97, 119>>]

\* line 50: the columns partition sets aside.
temporal ==
    <<serial_number, date, failure, predict_val, validate_val, model, capacity_bytes>>

VARIABLES
    df,                  \* self.df: row label -> record of the input row
    overlap,             \* self.overlap
    windowing,           \* self.windowing
    window_dim,          \* self.window_dim
    num_features,        \* numeric feature columns of the caller's table
    index_column,        \* TRUE when reset_index() adds the column 'index'
    numeric_columns,     \* columns of self.df the scaler transformed
    df_columns,          \* self.df: its index levels and its columns
    caller_df,           \* the DataFrame object the caller passed in
    pc,                  \* position of the build
    windowed_df,         \* perform_windowing: the working table
    windowed_df_failed,  \* perform_windowing: the Full sub-frame of Hybrid
    divisor_pos,         \* position of down_factor in window_dim_divisors
    i,                   \* loop variable of the shift loops
    total_shifts,        \* perform_windowing: total_shifts
    previous_down_factor,\* perform_windowing: previous_down_factor
    final_df,            \* perform_windowing: the table it returns
    data_dim,            \* preprocess_dataset: data_dim
    X,                   \* preprocess_dataset: the returned array
    group,               \* under_sample alone: its argument df
    down_factor,         \* under_sample alone: its argument down_factor
    indexes,             \* under_sample alone: the list it returned
    args,                \* a function called alone: its arguments
    returned,            \* a function called alone: what it returned
    trainer,             \* the class whose run() is executing
    epochs,              \* self.epochs
    epoch,               \* run: epochs completed
    F1_list,             \* run: F1_list
    F1_pos,              \* LSTMTrainer.run: i, the next slot of F1_list
    F1_scores,           \* the F1 of every epoch completed, in order
    lr_divisions,        \* how many times run divided self.lr by 10
    run_pc,              \* position of run
    classifier,          \* the classifier classification() is called with
    files,               \* the best_params files under model/, by path
    history              \* the calls of classification() completed

build_vars == <<df, overlap, windowing, window_dim, num_features, index_column,
                numeric_columns, df_columns, caller_df, windowed_df, windowed_df_failed, divisor_pos,
                i, total_shifts, previous_down_factor, final_df, X>>
fn_vars == <<group, down_factor, indexes, args, returned>>
run_vars == <<trainer, epochs, epoch, F1_list, F1_pos, F1_scores, lr_divisions,
              run_pc>>
classification_vars == <<classifier, files, history>>
algorithms_vars == <<run_vars, classification_vars>>
vars == <<build_vars, fn_vars, algorithms_vars, pc, data_dim>>

(***************************************************************************)
(* Helpers.                                                                *)
(***************************************************************************)
Range(s) == {s[j] : j \in DOMAIN s}

Max(S) == CHOOSE x \in S : \A y \in S : y <= x

RECURSIVE SumSeq(_)
SumSeq(s) == IF s = <<>> THEN 0 ELSE Head(s) + SumSeq(Tail(s))

(***************************************************************************)
(* factors(n): trial division by 2, then by the odd numbers.               *)
(***************************************************************************)
RECURSIVE DivideOut(_, _, _)
DivideOut(n, factor, acc) ==
    IF n % factor = 0
    THEN DivideOut(n \div factor, factor, Append(acc, factor))
    ELSE <<n, acc>>

RECURSIVE OddFactors(_, _, _)
OddFactors(n, factor, acc) ==
    IF factor * factor <= n
    THEN LET r == DivideOut(n, factor, acc)
         IN  OddFactors(r[1], factor + 2, r[2])
    ELSE <<n, acc>>

FactorsNoRemainder(n) ==
    LET two == DivideOut(n, 2, <<>>)
    IN  OddFactors(two[1], 3, two[2])[2]

factors(n) ==
    LET two == DivideOut(n, 2, <<>>)
        odd == OddFactors(two[1], 3, two[2])
    IN  IF odd[1] > 1 THEN Append(odd[2], odd[1]) ELSE odd[2]

(***************************************************************************)
(* The module-level factors(n) of Classification.py, a second copy of the  *)
(* same loops.                                                             *)
(***************************************************************************)
RECURSIVE Classification_DivideOut(_, _, _)
Classification_DivideOut(n, factor, acc) ==
    IF n % factor = 0
    THEN Classification_DivideOut(n \div factor, factor, Append(acc, factor))
    ELSE <<n, acc>>

RECURSIVE Classification_OddFactors(_, _, _)
Classification_OddFactors(n, factor, acc) ==
    IF factor * factor <= n
    THEN LET r == Classification_DivideOut(n, factor, acc)
         IN  Classification_OddFactors(r[1], factor + 2, r[2])
    ELSE <<n, acc>>

Classification_factors(n) ==
    LET two == Classification_DivideOut(n, 2, <<>>)
        odd == Classification_OddFactors(two[1], 3, two[2])
    IN  IF odd[1] > 1 THEN Append(odd[2], odd[1]) ELSE odd[2]

(***************************************************************************)
(* data_dim of preprocess_dataset:                                         *)
(*   sum(number - 1 for number in factors(window_dim)) + 1                 *)
(*       if overlap != 1 else window_dim                                   *)
(***************************************************************************)
DataDimWrongElse(w, o) ==
    SumSeq([j \in DOMAIN factors(w) |-> factors(w)[j] - 1])
        + (IF o # Full THEN 1 ELSE w)

DataDim(w, o) ==
    IF o # Full
    THEN SumSeq([j \in DOMAIN factors(w) |-> factors(w)[j] - 1]) + 1
    ELSE w

(***************************************************************************)
(* under_sample(df, down_factor).  A group is a record                     *)
(* [index: labels of its rows, predict_val: their predict_val].            *)
(***************************************************************************)
\* Series.rolling(window).max(): position p (from 1) is missing until a full
\* window of non-missing values ends at p.
rolling_max(values, window) ==
    [p \in 1..Len(values) |->
        IF p < window
        THEN NA
        ELSE LET w == {values[q] : q \in (p - window + 1)..p}
             IN  IF NA \in w THEN NA ELSE Max(w)]

\* A slice bound on a sequence of length n, as Python adjusts it.
AdjustIndex(x, n) ==
    IF x < 0
    THEN (IF x + n < 0 THEN 0 ELSE x + n)
    ELSE (IF x > n THEN n ELSE x)

\* The positions (from 0) start, start+step, ... below stop.
RECURSIVE SlicePositions(_, _, _)
SlicePositions(start, stop, step) ==
    IF start < stop
    THEN <<start>> \o SlicePositions(start + step, stop, step)
    ELSE <<>>

UnderSampleOffByOne(g, k) ==
    LET n == Len(g.index)
        pos == SlicePositions(AdjustIndex(n % k, n),
                              AdjustIndex(0 - TailGuard, n), k)
    IN  [j \in 1..Len(pos) |-> g.index[pos[j] + 1]]

under_sample(g, k) ==
    LET n == Len(g.index)
        rolled == rolling_max(g.predict_val, k)
        pos == SlicePositions(AdjustIndex((n - 1) % k, n),
                              AdjustIndex(0 - TailGuard, n), k)
        sliced == [index |-> [j \in 1..Len(pos) |-> g.index[pos[j] + 1]],
                   values |-> [j \in 1..Len(pos) |-> rolled[pos[j] + 1]]]
    IN  sliced.index

(***************************************************************************)
(* Tables.  A frame is [rows: sequence of [ix: label, src: per block the   *)
(* input row it holds, or NA], lags: per block the shift that made it      *)
(* (0 for the unshifted table)].  Blocks are listed left to right.         *)
(***************************************************************************)
NumRows == Cardinality(DOMAIN df)

Labels(frame) == {frame.rows[j].ix : j \in DOMAIN frame.rows}

RowAt(frame, label) == CHOOSE row \in Range(frame.rows) : row.ix = label

Missing(count) == [j \in 1..count |-> NA]

\* self.df.copy(): every row, one unshifted block.
BaseFrame ==
    [rows |-> [j \in 1..NumRows |-> [ix |-> j - 1, src |-> <<j - 1>>]],
     lags |-> <<0>>]

\* self.df[self.df['validate_val']==1]
FailedRows ==
    [rows |-> SelectSeq(BaseFrame.rows, LAMBDA row : df[row.ix].validate_val = 1),
     lags |-> <<0>>]

\* self.df.shift(periods): row r holds the values of row r - periods of the
\* whole table, whatever device that row belongs to.
ShiftByLoopIndex(periods, r) ==
    IF r - (periods - 1) >= 0 THEN r - (periods - 1) ELSE NA

Shift(periods, r) ==
    IF r - periods >= 0 THEN r - periods ELSE NA

\* dd.concat([self.df.shift(periods), frame], axis=1): the shifted copy goes
\* to the left; rows are matched by index label (an outer join), so every
\* label of self.df is a row of the result, and a label the frame does not
\* have gets missing values in the frame's blocks.  The frame's labels are
\* labels of self.df; the result is in index order.
ConcatShift(periods, frame) ==
    [rows |-> [j \in 1..NumRows |->
                 [ix |-> j - 1,
                  src |-> <<Shift(periods, j - 1)>> \o
                          (IF (j - 1) \in Labels(frame)
                           THEN RowAt(frame, j - 1).src
                           ELSE Missing(Len(frame.lags)))]],
     lags |-> <<periods>> \o frame.lags]

\* The predict_val a row of the frame holds in its unshifted block.
PredictVal(row) ==
    LET anchor == row.src[Len(row.src)]
    IN  IF anchor = NA THEN NA ELSE df[anchor].predict_val

\* frame.groupby(serials): the rows of one device, in the frame's order.
GroupOf(frame, serial) ==
    LET rows == SelectSeq(frame.rows,
                          LAMBDA row : df[row.ix].serial_number = serial)
    IN  [index |-> [j \in DOMAIN rows |-> rows[j].ix],
         predict_val |-> [j \in DOMAIN rows |-> PredictVal(rows[j])]]

\* groupby(serials).apply(under_sample, down_factor), then .loc on the
\* concatenated labels, then from_pandas (which sorts by index).
SampleFrame(frame, k) ==
    LET chosen == UNION {Range(under_sample(GroupOf(frame, s), k)) :
                            s \in {df[row.ix].serial_number :
                                      row \in Range(frame.rows)}}
    IN  [rows |-> SelectSeq(frame.rows, LAMBDA row : row.ix \in chosen),
         lags |-> frame.lags]

window_dim_divisors == factors(window_dim)

(***************************************************************************)
(* The inputs of a build.                                                  *)
(***************************************************************************)
\* A table of n rows sorted by (serial_number, date): device 1 has the first
\* `split` rows and device 2 the others.  A device with tail t > 0 fails:
\* validate_val is 1 on its last t rows and predict_val on its last row.
InputTable(n, split, tails) ==
    [r \in 0..(n - 1) |->
        LET serial == IF r < split THEN 1 ELSE 2
            to_end == IF r < split THEN split - 1 - r ELSE n - 1 - r
        IN  [serial_number |-> serial,
             date |-> r,
             predict_val |-> IF tails[serial] > 0 /\ to_end = 0 THEN 1 ELSE 0,
             validate_val |-> IF to_end < tails[serial] THEN 1 ELSE 0]]

InputTables ==
    {InputTable(size[1], size[2], tails) :
        size \in {s \in (1..MaxRows) \X (1..MaxRows) : s[2] <= s[1]},
        tails \in [1..2 -> 0..MaxTail]}

\* The index levels and the columns of the caller's table: the index is the
\* default one, or the table is indexed by (serial_number, date).
InputColumns(count, default_index) ==
    IF default_index
    THEN [index |-> <<>>, columns |-> FeatureColumns(count) \o temporal]
    ELSE [index |-> <<serial_number, date>>,
          columns |-> FeatureColumns(count) \o
                          <<failure, predict_val, validate_val, model, capacity_bytes>>]

NoColumns == [index |-> <<>>, columns |-> <<>>]

NoFrame == [rows |-> <<>>, lags |-> <<>>]
NoArray == [shape |-> <<>>, rows |-> <<>>, label_columns |-> 0]
NoGroup == [index |-> <<>>, predict_val |-> <<>>]

NoArgs == <<>>

NoReturn == <<>>

FnIdle ==
    /\ group = NoGroup
    /\ down_factor = 0
    /\ indexes = <<>>
    /\ args = NoArgs
    /\ returned = NoReturn

\* No file under model/.
NoFiles == [path \in {} |-> <<>>]

\* No trainer is running.
RunIdle ==
    /\ trainer = ""
    /\ epochs = 0
    /\ epoch = 0
    /\ F1_list = <<>>
    /\ F1_pos = 0
    /\ F1_scores = <<>>
    /\ lr_divisions = 0
    /\ run_pc = "idle"

\* classification() is not called.
ClassificationIdle ==
    /\ classifier = <<>>
    /\ files = NoFiles
    /\ history = <<>>

AlgorithmsIdle == RunIdle /\ ClassificationIdle

Init ==
    /\ df \in InputTables
    /\ overlap \in {Full, Dynamic, Hybrid}
    /\ windowing \in {0, 1}
    /\ window_dim \in 1..MaxWindow
    /\ num_features \in 1..MaxFeatures
    /\ index_column \in BOOLEAN
    /\ numeric_columns = 0
    \* line 26: self.df is the caller's object
    /\ df_columns = InputColumns(num_features, index_column)
    /\ caller_df = InputColumns(num_features, index_column)
    /\ pc = "partition"
    /\ windowed_df = NoFrame
    /\ windowed_df_failed = NoFrame
    /\ divisor_pos = 0
    /\ i = 0
    /\ total_shifts = 0
    /\ previous_down_factor = 0
    /\ final_df = NoFrame
    /\ data_dim = 0
    /\ X = NoArray
    /\ FnIdle
    /\ AlgorithmsIdle

(***************************************************************************)
(* partition, lines 44-54: reset_index moves the index into the columns    *)
(* (the column 'index' for a default index), the seven identifier and      *)
(* label columns are set aside, every other column is scaled, and the      *)
(* seven are put back.                                                     *)
(***************************************************************************)
\* line 44: reset_index(inplace=True) moves the index levels into the
\* columns, in front, an unnamed index under the name 'index'.
reset_index(frame) ==
    [index |-> <<>>,
     columns |-> (IF frame.index = <<>> THEN <<index>> ELSE frame.index)
                     \o frame.columns]

\* line 51: drop(columns=temporal.columns, inplace=True).
DropTemporal(frame) ==
    [index |-> frame.index,
     columns |-> SelectSeq(frame.columns, LAMBDA col : col \notin Range(temporal))]

Normalize ==
    /\ pc = "partition"
    /\ numeric_columns' = num_features + (IF index_column THEN 1 ELSE 0)
    \* lines 44 and 51 act on the object the caller passed in
    /\ caller_df' = DropTemporal(reset_index(caller_df))
    \* lines 52-54: a new table, the scaled columns and then the seven
    /\ df_columns' =
           [index |-> <<>>,
            columns |-> DropTemporal(reset_index(df_columns)).columns \o temporal]
    /\ pc' = "perform_windowing"
    /\ UNCHANGED <<df, overlap, windowing, window_dim, num_features,
                   index_column, windowed_df, windowed_df_failed, divisor_pos,
                   i, total_shifts, previous_down_factor, final_df, data_dim,
                   X, fn_vars,
                   algorithms_vars>>

(***************************************************************************)
(* perform_windowing.  `i` counts the iterations a shift loop has done,    *)
(* which is the value np.arange gives its next iteration.                  *)
(***************************************************************************)
loop_vars == <<divisor_pos, i, total_shifts, previous_down_factor>>
config_vars == <<df, overlap, windowing, window_dim, num_features,
                 index_column, numeric_columns, df_columns, caller_df>>

\* lines 145-148, 154-159, 176-183: the working table and the branch.
StartWindowing ==
    /\ pc = "perform_windowing"
    /\ windowed_df' = BaseFrame
    /\ i' = 0
    /\ total_shifts' = 0
    /\ IF overlap = Full
       THEN /\ pc' = IF window_dim - 1 > 0 THEN "full_shift" ELSE "rename_columns"
            /\ UNCHANGED <<windowed_df_failed, divisor_pos, previous_down_factor>>
       ELSE IF overlap = Dynamic
       THEN /\ pc' = IF window_dim_divisors = <<>>
                     THEN "rename_columns" ELSE "dynamic_shift"
            /\ divisor_pos' = 1
            /\ previous_down_factor' = 1
            /\ UNCHANGED windowed_df_failed
       ELSE /\ windowed_df_failed' = FailedRows
            /\ divisor_pos' = 1
            /\ previous_down_factor' = 1
            /\ pc' = IF window_dim - 1 > 0 THEN "hybrid_full_shift"
                     ELSE IF window_dim_divisors = <<>> THEN "hybrid_append"
                     ELSE "hybrid_shift"
    /\ UNCHANGED <<config_vars, final_df, data_dim, X, fn_vars,
                   algorithms_vars>>

\* lines 150-153: one iteration of the loop of Full.
FullShift ==
    /\ pc = "full_shift"
    /\ i < window_dim - 1
    /\ windowed_df' = ConcatShift(i + 1, windowed_df)
    /\ i' = i + 1
    /\ pc' = IF i + 1 < window_dim - 1 THEN "full_shift" ELSE "rename_columns"
    /\ UNCHANGED <<config_vars, windowed_df_failed, divisor_pos, total_shifts,
                   previous_down_factor, final_df, data_dim, X, fn_vars,
                   algorithms_vars>>

\* lines 162-165 and 190-193: one iteration of the shift loop of a factor.
FactorShift(here, sampling) ==
    /\ pc = here
    /\ i < window_dim_divisors[divisor_pos] - 1
    /\ total_shifts' = total_shifts + previous_down_factor
    /\ windowed_df' = ConcatShift(i + 1, windowed_df)
    /\ i' = i + 1
    /\ pc' = IF i + 1 < window_dim_divisors[divisor_pos] - 1 THEN here ELSE sampling
    /\ UNCHANGED <<config_vars, windowed_df_failed, divisor_pos,
                   previous_down_factor, final_df, data_dim, X, fn_vars,
                   algorithms_vars>>

\* lines 166-175 and 194-203: the under-sampling pass that ends a factor.
FactorSample(here, shifting, after) ==
    /\ pc = here
    /\ previous_down_factor' = previous_down_factor * window_dim_divisors[divisor_pos]
    /\ windowed_df' = SampleFrame(windowed_df, window_dim_divisors[divisor_pos])
    /\ divisor_pos' = divisor_pos + 1
    /\ i' = 0
    /\ pc' = IF divisor_pos < Len(window_dim_divisors) THEN shifting ELSE after
    /\ UNCHANGED <<config_vars, windowed_df_failed, total_shifts, final_df,
                   data_dim, X, fn_vars,
                   algorithms_vars>>

DynamicShift == FactorShift("dynamic_shift", "dynamic_sample")

DynamicSample == FactorSample("dynamic_sample", "dynamic_shift", "rename_columns")

\* lines 184-187: one iteration of the Full loop of Hybrid, on the sub-frame
\* of the rows with validate_val == 1.
HybridFullShift ==
    /\ pc = "hybrid_full_shift"
    /\ i < window_dim - 1
    /\ windowed_df_failed' = ConcatShift(i + 1, windowed_df_failed)
    /\ i' = IF i + 1 < window_dim - 1 THEN i + 1 ELSE 0
    /\ pc' = IF i + 1 < window_dim - 1 THEN "hybrid_full_shift"
             ELSE IF window_dim_divisors = <<>> THEN "hybrid_append"
             ELSE "hybrid_shift"
    /\ UNCHANGED <<config_vars, windowed_df, divisor_pos, total_shifts,
                   previous_down_factor, final_df, data_dim, X, fn_vars,
                   algorithms_vars>>

HybridShift == FactorShift("hybrid_shift", "hybrid_sample")

HybridSample == FactorSample("hybrid_sample", "hybrid_shift", "hybrid_append")

\* windowed_df.append(windowed_df_failed) followed by a fresh index.
Appended ==
    LET rows == windowed_df.rows \o windowed_df_failed.rows
    IN  [rows |-> [j \in DOMAIN rows |-> [ix |-> j - 1, src |-> rows[j].src]],
         lags |-> windowed_df.lags]

\* lines 205-206.  The two frames are stacked when they have the same
\* columns; with different numbers of equally named columns the rows cannot
\* be aligned and the call raises.  reset_index(inplace=True, drop=True) is
\* the pandas signature; a dask frame that does not take it raises too.
HybridAppend ==
    /\ pc = "hybrid_append"
    /\ \/ /\ Len(windowed_df.lags) = Len(windowed_df_failed.lags)
          /\ windowed_df' = Appended
          /\ pc' = "rename_columns"
       \/ /\ pc' = "error"
          /\ UNCHANGED windowed_df
    /\ UNCHANGED <<config_vars, windowed_df_failed, loop_vars, final_df,
                   data_dim, X, fn_vars,
                   algorithms_vars>>

(***************************************************************************)
(* rename_columns, called on the computed table (lines 209-213, 122-131).  *)
(* The columns are named left to right: the first column of a name keeps   *)
(* it and the k-th gets the suffix _k, so the columns of block j get the   *)
(* occurrence number j.                                                    *)
(***************************************************************************)
rename_columns(frame) ==
    [rows |-> frame.rows,
     lags |-> frame.lags,
     occurrence |-> [j \in DOMAIN frame.lags |-> j]]

(***************************************************************************)
(* rename_columns on the column names (lines 122-131).  A name is the      *)
(* sequence of the code points of its characters; Python compares strings  *)
(* code point by code point, a proper prefix coming first.                 *)
(***************************************************************************)
\* count[column] when the column at position j is reached.
CountAt(columns, j) == Cardinality({q \in 1..j : columns[q] = columns[j]})

\* f"{column}_{count[column]}" if count[column] > 1 else column
NewColumn(column, count) ==
    IF count > 1 THEN column \o <<95>> \o Digits(count) ELSE column

NewColumns(columns) ==
    [j \in DOMAIN columns |-> NewColumn(columns[j], CountAt(columns, j))]

RECURSIVE StrLeq(_, _)
StrLeq(a, b) ==
    IF a = <<>> THEN TRUE
    ELSE IF b = <<>> THEN FALSE
    ELSE IF Head(a) # Head(b) THEN Head(a) < Head(b)
    ELSE StrLeq(Tail(a), Tail(b))

RECURSIVE InsertName(_, _)
InsertName(name, sorted) ==
    IF sorted = <<>> THEN <<name>>
    ELSE IF StrLeq(Head(sorted), name)
         THEN <<Head(sorted)>> \o InsertName(name, Tail(sorted))
         ELSE <<name>> \o sorted

\* df.sort_index(axis=1): the column labels in ascending order.
RECURSIVE SortNames(_)
SortNames(names) ==
    IF names = <<>> THEN <<>>
    ELSE InsertName(names[Len(names)], SortNames(SubSeq(names, 1, Len(names) - 1)))

\* The column labels of the table rename_columns returns.
RenamedColumns(columns) == SortNames(NewColumns(columns))

RenameColumns ==
    /\ pc = "rename_columns"
    /\ final_df' = rename_columns(windowed_df)
    /\ pc' = "preprocess_dataset"
    /\ UNCHANGED <<config_vars, windowed_df, windowed_df_failed, loop_vars,
                   data_dim, X, fn_vars,
                   algorithms_vars>>

(***************************************************************************)
(* preprocess_dataset.                                                     *)
(***************************************************************************)
\* The block whose columns carry no suffix.
Unsuffixed(frame) == CHOOSE j \in DOMAIN frame.lags : frame.occurrence[j] = 1

\* (serial_number, date) of the unsuffixed columns of a row.
KeyLeq(frame, a, b) ==
    LET ka == df[a.src[Unsuffixed(frame)]]
        kb == df[b.src[Unsuffixed(frame)]]
    IN  \/ ka.serial_number < kb.serial_number
        \/ ka.serial_number = kb.serial_number /\ ka.date <= kb.date

RECURSIVE Insert(_, _, _)
Insert(frame, row, sorted) ==
    IF sorted = <<>> THEN <<row>>
    ELSE IF KeyLeq(frame, row, Head(sorted)) THEN <<row>> \o sorted
    ELSE <<Head(sorted)>> \o Insert(frame, row, Tail(sorted))

\* set_index(['serial_number', 'date']), sort_index, reset_index.
RECURSIVE SortRows(_, _)
SortRows(frame, rows) ==
    IF rows = <<>> THEN <<>>
    ELSE Insert(frame, Head(rows), SortRows(frame, Tail(rows)))

\* arrays_to_matrix on an array of the given shape: the shape of the result,
\* or <<>> when reshape raises because the sizes differ.
arrays_to_matrix(shape, wind_dim) ==
    LET columns == shape[2] \div wind_dim
    IN  IF shape[1] * columns * wind_dim = shape[1] * shape[2]
        THEN <<shape[1], columns, wind_dim>>
        ELSE <<>>

\* The elements of an array of rows in C order (row after row).
RECURSIVE ravel(_)
ravel(array) == IF array = <<>> THEN <<>> ELSE Head(array) \o ravel(Tail(array))

\* reshape to (samples, columns, depth) in Fortran order: the first axis
\* varies fastest.
ReshapeFortranOrder(flat, samples, columns, depth) ==
    [s \in 1..samples |->
        [f \in 1..columns |->
            [j \in 1..depth |->
                flat[(s - 1) + samples * ((f - 1) + columns * (j - 1)) + 1]]]]

\* numpy reshape to (samples, columns, depth), C order: the elements are read
\* row after row and written with the last axis varying fastest.
reshape(flat, samples, columns, depth) ==
    [s \in 1..samples |->
        [f \in 1..columns |->
            [j \in 1..depth |->
                flat[((s - 1) * columns + (f - 1)) * depth + (j - 1) + 1]]]]

\* arrays_to_matrix on the values of an array of the given shape: whether
\* reshape raised, and X_new.
X_new(array, shape, wind_dim) ==
    LET to == arrays_to_matrix(shape, wind_dim)
    IN  IF to = <<>>
        THEN [raised |-> TRUE, X_new |-> <<>>, shape |-> <<>>]
        ELSE [raised |-> FALSE,
              X_new |-> reshape(ravel(array), to[1], to[2], to[3]),
              shape |-> to]

\* lines 243-285: the rows and the blocks the filter keeps when windowing == 1.
\* Step 1 leaves the identifier columns of the unsuffixed block only; step 2
\* drops the rows where date, serial_number or capacity_bytes of that block is
\* missing; step 3 drops every column with a missing value in a row that is
\* left, which takes the columns of a block together.
FilteredRows(frame) ==
    SelectSeq(frame.rows, LAMBDA row : row.src[Unsuffixed(frame)] # NA)

FilteredBlocks(frame) ==
    {j \in DOMAIN frame.lags :
        \A row \in Range(FilteredRows(frame)) : row.src[j] # NA}

BlockSeq(frame, blocks) ==
    SelectSeq([j \in DOMAIN frame.lags |-> j], LAMBDA j : j \in blocks)

\* X.label_columns counts the columns of df.values that are a copy of failure,
\* predict_val or validate_val: line 288 drops the identifier columns only.
\* The rows of the array: per kept block, left to right, the input row whose
\* values the sample holds.
ArrayRows(frame, rows, blocks) ==
    [r \in DOMAIN rows |->
        [j \in DOMAIN BlockSeq(frame, blocks) |->
            rows[r].src[BlockSeq(frame, blocks)[j]]]]

(***************************************************************************)
(* preprocess_dataset on a table given by its column names and its cells   *)
(* (lines 243-298).  A table is [columns |-> set of names, rows |-> list   *)
(* of [ix |-> label, cells |-> name -> value or NA]].                      *)
(***************************************************************************)
base_names == <<serial_number, date, capacity_bytes, model>>

essential_columns == <<date, serial_number, capacity_bytes>>

\* re.match(pattern, col), pattern being ^base_name_\d+$ for a base name.
MatchesPattern(col) ==
    \E b \in DOMAIN base_names :
        LET base == base_names[b]
        IN  /\ Len(col) >= Len(base) + 2
            /\ SubSeq(col, 1, Len(base)) = base
            /\ col[Len(base) + 1] = 95
            /\ \A j \in (Len(base) + 2)..Len(col) : col[j] \in 48..57

\* line 253: the essential columns that are not columns of the table.
MissingColumns(columns) ==
    SelectSeq(essential_columns, LAMBDA col : col \notin columns)

\* line 261 restricted to date: a row dropping that looks at one column only.
DropnaDateOnly(columns, rows) ==
    IF MissingColumns(columns) = <<>>
    THEN SelectSeq(rows, LAMBDA row : row.cells[date] # NA)
    ELSE rows

\* lines 256-273: df.dropna(subset=essential_columns) when no essential
\* column is missing, no row dropping otherwise.
DropnaEssential(columns, rows) ==
    IF MissingColumns(columns) = <<>>
    THEN SelectSeq(rows, LAMBDA row :
             \A j \in DOMAIN essential_columns : row.cells[essential_columns[j]] # NA)
    ELSE rows

\* A dropna(axis='columns', how='all'): only a column with no value at all
\* is dropped.
DropnaColumnsAllMissing(columns, rows) ==
    {col \in columns : rows = <<>> \/ \E j \in DOMAIN rows : rows[j].cells[col] # NA}

\* line 276: df.dropna(axis='columns').
DropnaColumns(columns, rows) ==
    {col \in columns : \A j \in DOMAIN rows : rows[j].cells[col] # NA}

CellKeyLeq(a, b) ==
    \/ a.cells[serial_number] < b.cells[serial_number]
    \/ /\ a.cells[serial_number] = b.cells[serial_number]
       /\ a.cells[date] <= b.cells[date]

RECURSIVE InsertByKey(_, _)
InsertByKey(row, sorted) ==
    IF sorted = <<>> THEN <<row>>
    ELSE IF CellKeyLeq(row, Head(sorted)) THEN <<row>> \o sorted
    ELSE <<Head(sorted)>> \o InsertByKey(row, Tail(sorted))

\* lines 280-285: set_index(['serial_number', 'date']), sort_index, reset_index.
RECURSIVE SortByKey(_)
SortByKey(rows) ==
    IF rows = <<>> THEN <<>> ELSE InsertByKey(Head(rows), SortByKey(Tail(rows)))

\* What the call prints and returns: missing_columns, the rows left by the row
\* dropping of step 2, the exception raised ("" when none) and the shape of
\* the returned array.
preprocess_dataset(table, flag, w, o) ==
    LET step1 == IF flag = 1
                 THEN {col \in table.columns : ~MatchesPattern(col)}
                 ELSE table.columns
        missing_columns == IF flag = 1 THEN MissingColumns(step1) ELSE <<>>
        step2 == IF flag = 1 THEN DropnaEssential(step1, table.rows) ELSE table.rows
        step3 == IF flag = 1 THEN DropnaColumns(step1, step2) ELSE step1
        \* line 288: the four identifier columns dropped
        values == step3 \ Range(base_names)
        \* line 289: df.values, a row of the array per row of the table
        array == LET rows == IF flag = 1 THEN SortByKey(step2) ELSE step2
                 IN  [r \in DOMAIN rows |-> [col \in values |-> rows[r].cells[col]]]
    IN  \* line 280 raises when a key of set_index is not a column
        IF flag = 1 /\ ~({serial_number, date} \subseteq step3)
        THEN [missing_columns |-> missing_columns, rows |-> step2, columns |-> step3,
              raised |-> "KeyError", shape |-> <<>>, X |-> <<>>]
        \* line 288 raises when a label of drop is not a column
        ELSE IF ~(Range(base_names) \subseteq step3)
        THEN [missing_columns |-> missing_columns, rows |-> step2, columns |-> step3,
              raised |-> "KeyError", shape |-> <<>>, X |-> <<>>]
        ELSE IF flag # 1
        THEN [missing_columns |-> missing_columns, rows |-> step2, columns |-> step3,
              raised |-> "", shape |-> <<Len(step2), 1, Cardinality(values)>>,
              X |-> array]
        ELSE LET shape == arrays_to_matrix(<<Len(array), Cardinality(values)>>,
                                           DataDim(w, o))
             IN  [missing_columns |-> missing_columns, rows |-> step2,
                  columns |-> step3,
                  raised |-> IF shape = <<>> THEN "ValueError" ELSE "",
                  shape |-> shape,
                  X |-> IF shape = <<>> THEN <<>> ELSE array]

(***************************************************************************)
(* The columns of the array of a build, by name.  A column is              *)
(* [name, base, block]: its name, the column of self.df it is a copy of    *)
(* and the block of the frame it belongs to.                               *)
(***************************************************************************)
\* The columns of the frame perform_windowing computed, left to right: block
\* after block, each with the columns of self.df.
StackedColumns(frame) ==
    LET width == Len(df_columns.columns)
        count == Len(frame.lags) * width
    IN  SubSeq([p \in 1..count |->
                   [name |-> df_columns.columns[((p - 1) % width) + 1],
                    base |-> df_columns.columns[((p - 1) % width) + 1],
                    block |-> ((p - 1) \div width) + 1]], 1, count)

\* lines 122-130 on these columns.
RenameStacked(columns) ==
    LET count == Len(columns)
        old == SubSeq([p \in 1..count |-> columns[p].name], 1, count)
        names == SubSeq(NewColumns(old), 1, count)
    IN  SubSeq([p \in 1..count |-> [columns[p] EXCEPT !.name = names[p]]],
               1, count)

\* line 131: sort_index(axis=1) on these columns: a column goes to the place
\* given by the number of columns whose name sorts before its own.
SortColumns(columns) ==
    LET count == Len(columns)
        Before(q, p) ==
            IF columns[q].name = columns[p].name THEN q < p
            ELSE StrLeq(columns[q].name, columns[p].name)
        place == SubSeq([p \in 1..count |->
                     Cardinality({q \in 1..count : Before(q, p)}) + 1], 1, count)
    IN  SubSeq([r \in 1..count |->
                   columns[CHOOSE p \in 1..count : place[p] = r]], 1, count)

\* The columns of df.values at line 289 with windowing == 1: the renamed and
\* sorted columns without the suffixed identifier columns (step 1), without
\* the columns of a block that has a missing value in a row that is left
\* (step 3) and without the four identifier columns (line 288).
ArrayColumns(frame) ==
    LET blocks == FilteredBlocks(frame)
    IN  SelectSeq(SortColumns(RenameStacked(StackedColumns(frame))),
                  LAMBDA column :
                      /\ ~MatchesPattern(column.name)
                      /\ column.block \in blocks
                      /\ column.name \notin Range(base_names))

PreprocessDataset ==
    /\ pc = "preprocess_dataset"
    /\ IF windowing = 1
       THEN LET blocks == FilteredBlocks(final_df)
                rows == SortRows(final_df, FilteredRows(final_df))
                \* line 288 drops the four identifier columns that are left
                width == Cardinality(blocks) * (numeric_columns + LabelColumns)
                dim == DataDim(window_dim, overlap)
                shape == arrays_to_matrix(<<Len(rows), width>>, dim)
            IN  /\ data_dim' = dim
                /\ IF shape = <<>>
                   THEN /\ pc' = "error"
                        /\ X' = X
                   ELSE /\ pc' = "done"
                        /\ X' = [shape |-> shape,
                                 rows |-> ArrayRows(final_df, rows, blocks),
                                 label_columns |-> Cardinality(blocks) * LabelColumns]
       ELSE LET blocks == DOMAIN final_df.lags
                \* line 288 drops the unsuffixed identifier columns only
                width == Len(final_df.lags) * (numeric_columns + LabelColumns)
                            + (Len(final_df.lags) - 1) * IdColumns
            IN  /\ data_dim' = data_dim
                /\ pc' = "done"
                \* np.expand_dims(X, axis=1)
                /\ X' = [shape |-> <<Len(final_df.rows), 1, width>>,
                         rows |-> ArrayRows(final_df, final_df.rows, blocks),
                         label_columns |-> Len(final_df.lags) * LabelColumns]
    /\ UNCHANGED <<config_vars, windowed_df, windowed_df_failed, loop_vars,
                   final_df, fn_vars,
                   algorithms_vars>>

Next ==
    \/ Normalize
    \/ StartWindowing
    \/ FullShift
    \/ DynamicShift
    \/ DynamicSample
    \/ HybridFullShift
    \/ HybridShift
    \/ HybridSample
    \/ HybridAppend
    \/ RenameColumns
    \/ PreprocessDataset

Spec == Init /\ [][Next]_vars

(***************************************************************************)
(* The build of a table of three devices with ten chronological rows each, *)
(* window_dim = 4 and Dynamic overlap.                                     *)
(***************************************************************************)
\* A table of `devices` devices with `each` rows each, sorted by
\* (serial_number, date); tails as in InputTable.
DeviceTable(devices, each, tails) ==
    [r \in 0..(devices * each - 1) |->
        LET serial == (r \div each) + 1
            to_end == each - 1 - (r % each)
        IN  [serial_number |-> serial,
             date |-> r % each,
             predict_val |-> IF tails[serial] > 0 /\ to_end = 0 THEN 1 ELSE 0,
             validate_val |-> IF to_end < tails[serial] THEN 1 ELSE 0]]

InitScenario ==
    /\ df \in {DeviceTable(3, 10, tails) : tails \in [1..3 -> 0..MaxTail]}
    /\ overlap = Dynamic
    /\ windowing = 1
    /\ window_dim = 4
    /\ num_features \in 1..MaxFeatures
    /\ index_column \in BOOLEAN
    /\ numeric_columns = 0
    /\ df_columns = InputColumns(num_features, index_column)
    /\ caller_df = InputColumns(num_features, index_column)
    /\ pc = "partition"
    /\ windowed_df = NoFrame
    /\ windowed_df_failed = NoFrame
    /\ divisor_pos = 0
    /\ i = 0
    /\ total_shifts = 0
    /\ previous_down_factor = 0
    /\ final_df = NoFrame
    /\ data_dim = 0
    /\ X = NoArray
    /\ FnIdle
    /\ AlgorithmsIdle

NextScenario ==
    \/ Normalize
    \/ StartWindowing
    \/ DynamicShift
    \/ DynamicSample
    \/ RenameColumns
    \/ PreprocessDataset

SpecScenario == InitScenario /\ [][NextScenario]_vars

(***************************************************************************)
(* The builds under Full and Dynamic with window_dim up to MaxCopies, on a *)
(* table of one device with one row or with MaxRows rows.                  *)
(***************************************************************************)
InitCopies ==
    /\ df \in {InputTable(n, n, [serial \in 1..2 |-> 0]) : n \in {1, MaxRows}}
    /\ overlap \in {Full, Dynamic}
    /\ windowing = 1
    /\ window_dim \in 1..MaxCopies
    /\ num_features \in 1..MaxFeatures
    /\ index_column \in BOOLEAN
    /\ numeric_columns = 0
    /\ df_columns = InputColumns(num_features, index_column)
    /\ caller_df = InputColumns(num_features, index_column)
    /\ pc = "partition"
    /\ windowed_df = NoFrame
    /\ windowed_df_failed = NoFrame
    /\ divisor_pos = 0
    /\ i = 0
    /\ total_shifts = 0
    /\ previous_down_factor = 0
    /\ final_df = NoFrame
    /\ data_dim = 0
    /\ X = NoArray
    /\ FnIdle
    /\ AlgorithmsIdle

NextCopies ==
    \/ Normalize
    \/ StartWindowing
    \/ FullShift
    \/ DynamicShift
    \/ DynamicSample
    \/ RenameColumns
    \/ PreprocessDataset

SpecCopies == InitCopies /\ [][NextCopies]_vars

(***************************************************************************)
(* under_sample and the depth computation on their own, on inputs drawn    *)
(* from bounded sets.                                                      *)
(***************************************************************************)
\* A group of n rows with labels first, first+1, ...: predict_val is 0 but
\* for at most one row, where it is 1 (the caller assigns predict_val from a
\* complete list, so no value is missing).
Groups ==
    {[index |-> [p \in 1..n |-> first + p - 1],
      predict_val |-> [p \in 1..n |-> IF p = positive THEN 1 ELSE 0]] :
        n \in 1..MaxGroup, first \in {0, 3}, positive \in 0..MaxGroup}

BuildIdle ==
    /\ df = <<>>
    /\ windowing = 1
    /\ num_features = 0
    /\ index_column = FALSE
    /\ numeric_columns = 0
    /\ df_columns = NoColumns
    /\ caller_df = NoColumns
    /\ windowed_df = NoFrame
    /\ windowed_df_failed = NoFrame
    /\ divisor_pos = 0
    /\ i = 0
    /\ total_shifts = 0
    /\ previous_down_factor = 0
    /\ final_df = NoFrame
    /\ X = NoArray

\* The column names handed to rename_columns alone: 'a', 'b', 'a_2', 'a_3'.
ColumnNames == {<<97>>, <<98>>, <<97, 95, 50>>, <<97, 95, 51>>}

ColumnLists == UNION {[1..n -> ColumnNames] : n \in 0..MaxColumns}

\* The tables handed to preprocess_dataset alone: the feature column
\* smart_9_raw and any of the four identifier columns and of date_2; a
\* serial_number, a capacity_bytes or a smart_9_raw is 1 or missing, a date 1,
\* 2 or missing, and model and date_2 have no missing value.
smart_9_raw == <<115, 109, 97, 114, 116, 95, 57, 95, 114, 97, 119>>

date_2 == date \o <<95, 50>>

CellsOf(columns) ==
    {cells \in [columns -> {NA, 1, 2}] :
        /\ \A col \in columns \cap {model, date_2} : cells[col] = 1
        /\ \A col \in columns \ {date} : cells[col] # 2}

Table(columns, cells) ==
    [columns |-> columns,
     rows |-> [p \in DOMAIN cells |-> [ix |-> p - 1, cells |-> cells[p]]]]

\* An array of n rows of the given length whose elements are pairwise
\* distinct: the element at [s, c] is s * length + c.
Array(n, length) ==
    [s \in 1..n |-> [c \in 1..length |-> (s - 1) * length + (c - 1)]]

\* A call that takes all its inputs from args.
ArgsOnly ==
    /\ window_dim = 0
    /\ overlap = 0
    /\ group = NoGroup
    /\ down_factor = 0

InitFn ==
    /\ BuildIdle
    /\ AlgorithmsIdle
    /\ data_dim = 0
    /\ indexes = <<>>
    /\ returned = NoReturn
    /\ \/ /\ pc = "call_under_sample"
          /\ group \in Groups
          /\ down_factor \in 1..MaxFactor
          /\ window_dim = 0
          /\ overlap = 0
          /\ args = NoArgs
       \/ /\ pc = "call_data_dim"
          /\ window_dim \in 1..MaxDim
          /\ overlap \in {Full, Dynamic, Hybrid}
          /\ group = NoGroup
          /\ down_factor = 0
          /\ args = NoArgs
       \/ /\ pc = "call_factors"
          /\ args \in [n : 1..MaxNumber]
          /\ ArgsOnly
       \/ /\ pc = "call_rename_columns"
          /\ args \in [columns : ColumnLists]
          /\ ArgsOnly
       \/ /\ pc = "call_arrays_to_matrix"
          /\ args \in [shape : (0..MaxArrayRows) \X (0..MaxRowLength),
                        wind_dim : 1..MaxDepth]
          /\ ArgsOnly
       \/ /\ pc = "call_arrays_to_matrix_values"
          /\ \E n \in 0..MaxArrayRows, length \in 0..MaxRowLength :
                 args \in [X : {Array(n, length)},
                           shape : {<<n, length>>},
                           wind_dim : 1..MaxDepth]
          /\ ArgsOnly
       \/ /\ pc = "call_preprocess_dataset"
          /\ \E ids \in SUBSET (Range(base_names) \cup {date_2}) :
                 \E n \in 0..MaxTableRows :
                     \E cells \in [1..n -> CellsOf({smart_9_raw} \cup ids)] :
                         args = [df |-> Table({smart_9_raw} \cup ids, cells)]
          /\ window_dim \in 1..2
          /\ overlap = Full
          /\ group = NoGroup
          /\ down_factor = 0

ApplyUnderSample ==
    /\ pc = "call_under_sample"
    /\ indexes' = under_sample(group, down_factor)
    /\ pc' = "under_sampled"
    /\ UNCHANGED <<build_vars, algorithms_vars, group, down_factor, args, returned, data_dim>>

ApplyDataDim ==
    /\ pc = "call_data_dim"
    /\ data_dim' = DataDim(window_dim, overlap)
    /\ pc' = "data_dim_done"
    /\ UNCHANGED <<build_vars, fn_vars, algorithms_vars>>

\* factors(n) of Dataset_processing.py and factors(n) of Classification.py,
\* each called on the same n.
ApplyFactors ==
    /\ pc = "call_factors"
    /\ returned' = [Dataset_processing |-> factors(args.n),
                    Classification |-> Classification_factors(args.n)]
    /\ pc' = "factors_returned"
    /\ UNCHANGED <<build_vars, algorithms_vars, group, down_factor, indexes, args, data_dim>>

ApplyRenameColumns ==
    /\ pc = "call_rename_columns"
    /\ returned' = RenamedColumns(args.columns)
    /\ pc' = "columns_renamed"
    /\ UNCHANGED <<build_vars, algorithms_vars, group, down_factor, indexes, args, data_dim>>

ApplyPreprocessDataset ==
    /\ pc = "call_preprocess_dataset"
    /\ returned' = preprocess_dataset(args.df, windowing, window_dim, overlap)
    /\ pc' = "preprocessed"
    /\ UNCHANGED <<build_vars, algorithms_vars, group, down_factor, indexes, args, data_dim>>

\* arrays_to_matrix on an array of shape args.shape; returned is the shape of
\* the result, <<>> when reshape raised.
ApplyArraysToMatrix ==
    /\ pc = "call_arrays_to_matrix"
    /\ returned' = arrays_to_matrix(args.shape, args.wind_dim)
    /\ pc' = "matrix_returned"
    /\ UNCHANGED <<build_vars, algorithms_vars, group, down_factor, indexes, args, data_dim>>

\* arrays_to_matrix on an array given with its values.
ApplyArraysToMatrixValues ==
    /\ pc = "call_arrays_to_matrix_values"
    /\ returned' = X_new(args.X, args.shape, args.wind_dim)
    /\ pc' = "matrix_values_returned"
    /\ UNCHANGED <<build_vars, algorithms_vars, group, down_factor, indexes, args, data_dim>>

NextFn ==
    \/ ApplyUnderSample
    \/ ApplyDataDim
    \/ ApplyFactors
    \/ ApplyRenameColumns
    \/ ApplyPreprocessDataset
    \/ ApplyArraysToMatrix
    \/ ApplyArraysToMatrixValues

SpecFn == InitFn /\ [][NextFn]_vars

(***************************************************************************)
(* The training loops of Networks_pytorch.py.  An epoch is train() and     *)
(* test(); the F1 train() returns is any of 0..MaxScore.                   *)
(***************************************************************************)
\* The build and the functions called alone take no part.
DatasetIdle ==
    /\ BuildIdle
    /\ FnIdle
    /\ overlap = 0
    /\ window_dim = 0
    /\ data_dim = 0

\* line 458: np.ndarray(5) is not initialised, its five entries are whatever
\* the memory holds.  lines 647 and 814: an empty deque.
InitRun ==
    /\ DatasetIdle
    /\ ClassificationIdle
    /\ pc = "run"
    /\ trainer \in {"LSTMTrainer", "TCNTrainer", "MLPTrainer"}
    /\ epochs \in 1..MaxEpochs
    /\ epoch = 0
    /\ F1_list \in IF trainer = "LSTMTrainer" THEN [1..5 -> 0..MaxScore]
                   ELSE {<<>>}
    /\ F1_pos = 0
    /\ F1_scores = <<>>
    /\ lr_divisions = 0
    /\ run_pc = "loop"

\* deque(maxlen=5).append
DequeAppend(list, F1) ==
    IF Len(list) < 5 THEN Append(list, F1) ELSE Append(Tail(list), F1)

\* len(F1_list) == 5 and len(set(F1_list)) == 1
DequeConstant(list) == Len(list) = 5 /\ Cardinality(Range(list)) = 1

\* F1_list[0] != 0 and (max(F1_list) - min(F1_list)) == 0
ArrayConstant(list) ==
    /\ list[1] # 0
    /\ \A a, b \in DOMAIN list : list[a] = list[b]

\* lines 470-473, 661-664, 825-828: self.lr /= 10 when epoch % 20 == 0.
LrDivisions(number) == IF number % 20 = 0 THEN lr_divisions + 1 ELSE lr_divisions

\* lines 461-473: one pass of the loop of LSTMTrainer.run.  The test at line
\* 468 only prints: the loop goes on.
LSTMTrainer_run ==
    /\ pc = "run" /\ run_pc = "loop" /\ trainer = "LSTMTrainer"
    /\ epoch + 1 < epochs
    /\ \E F1 \in 0..MaxScore :
           /\ F1_list' = [F1_list EXCEPT ![F1_pos + 1] = F1]
           /\ F1_scores' = Append(F1_scores, F1)
    /\ F1_pos' = IF F1_pos + 1 = 5 THEN 0 ELSE F1_pos + 1
    /\ epoch' = epoch + 1
    /\ lr_divisions' = LrDivisions(epoch + 1)
    /\ UNCHANGED <<build_vars, fn_vars, classification_vars, pc, data_dim,
                   trainer, epochs, run_pc>>

\* lines 649-664: one pass of the loop of TCNTrainer.run.
TCNTrainer_run ==
    /\ pc = "run" /\ run_pc = "loop" /\ trainer = "TCNTrainer"
    /\ epoch + 1 < epochs
    /\ \E F1 \in 0..MaxScore :
           /\ F1_list' = DequeAppend(F1_list, F1)
           /\ F1_scores' = Append(F1_scores, F1)
    /\ epoch' = epoch + 1
    /\ IF DequeConstant(F1_list')
       THEN run_pc' = "closed" /\ UNCHANGED lr_divisions
       ELSE run_pc' = run_pc /\ lr_divisions' = LrDivisions(epoch + 1)
    /\ UNCHANGED <<build_vars, fn_vars, classification_vars, pc, data_dim,
                   trainer, epochs, F1_pos>>

\* lines 815-828: one pass of the loop of MLPTrainer.run.
MLPTrainer_run ==
    /\ pc = "run" /\ run_pc = "loop" /\ trainer = "MLPTrainer"
    /\ epoch + 1 < epochs
    /\ \E F1 \in 0..MaxScore :
           /\ F1_list' = DequeAppend(F1_list, F1)
           /\ F1_scores' = Append(F1_scores, F1)
    /\ epoch' = epoch + 1
    /\ IF DequeConstant(F1_list')
       THEN run_pc' = "closed" /\ UNCHANGED lr_divisions
       ELSE run_pc' = run_pc /\ lr_divisions' = LrDivisions(epoch + 1)
    /\ UNCHANGED <<build_vars, fn_vars, classification_vars, pc, data_dim,
                   trainer, epochs, F1_pos>>

\* range(1, self.epochs) is exhausted: self.writer.close() and the save.
CloseRun ==
    /\ pc = "run" /\ run_pc = "loop"
    /\ epoch + 1 >= epochs
    /\ run_pc' = "closed"
    /\ UNCHANGED <<build_vars, fn_vars, classification_vars, pc, data_dim,
                   trainer, epochs, epoch, F1_list, F1_pos, F1_scores,
                   lr_divisions>>

NextRun ==
    \/ LSTMTrainer_run
    \/ TCNTrainer_run
    \/ MLPTrainer_run
    \/ CloseRun

SpecRun == InitRun /\ [][NextRun]_vars

(***************************************************************************)
(* classification() with a scikit-learn classifier, called again and again *)
(* with the same classifier.  Names are sequences of code points, a        *)
(* parameter setting is a sequence: <<>> is the empty dict, <<c>> the       *)
(* c-th candidate of the grid.                                             *)
(***************************************************************************)
RandomForest == <<82, 97, 110, 100, 111, 109, 70, 111, 114, 101, 115, 116>>
KNeighbors == <<75, 78, 101, 105, 103, 104, 98, 111, 114, 115>>
DecisionTree == <<68, 101, 99, 105, 115, 105, 111, 110, 84, 114, 101, 101>>
LogisticRegression == <<76, 111, 103, 105, 115, 116, 105, 99, 82, 101, 103, 114, 101, 115, 115, 105, 111, 110>>
SVM == <<83, 86, 77>>
XGB == <<88, 71, 66>>
IsolationForest == <<73, 115, 111, 108, 97, 116, 105, 111, 110, 70, 111, 114, 101, 115, 116>>
ExtraTrees == <<69, 120, 116, 114, 97, 84, 114, 101, 101, 115>>
GradientBoosting == <<71, 114, 97, 100, 105, 101, 110, 116, 66, 111, 111, 115, 116, 105, 110, 103>>
NaiveBayes == <<78, 97, 105, 118, 101, 66, 97, 121, 101, 115>>
MLP == <<77, 76, 80>>
DBSCAN == <<68, 66, 83, 67, 65, 78>>
ExtraTreesClassifier == <<69, 120, 116, 114, 97, 84, 114, 101, 101, 115, 67, 108, 97, 115, 115, 105, 102, 105, 101, 114>>
GradientBoostingClassifier == <<71, 114, 97, 100, 105, 101, 110, 116, 66, 111, 111, 115, 116, 105, 110, 103, 67, 108, 97, 115, 115, 105, 102, 105, 101, 114>>

\* The branches of classification() that end in train_and_evaluate_model.
Classifiers ==
    {RandomForest, KNeighbors, DecisionTree, LogisticRegression, SVM, XGB,
     IsolationForest, ExtraTrees, GradientBoosting, NaiveBayes, MLP, DBSCAN}

\* str.lower()
Lower(name) ==
    [p \in DOMAIN name |->
        IF name[p] >= 65 /\ name[p] <= 90 THEN name[p] + 32 ELSE name[p]]

\* lines 59-65 and 85-88: the directory is the id_number, the file name is
\* made of the lower-cased classifier name and the id_number.
file_path(classifier_name, id_number) ==
    <<id_number, Lower(classifier_name)>>

\* The classifier_name the branch passes to train_and_evaluate_model.
TrainName(name) ==
    IF name = ExtraTrees THEN ExtraTreesClassifier
    ELSE IF name = GradientBoosting THEN GradientBoostingClassifier
    ELSE name

\* The branch of MLP has no call of load_best_params_from_json.
Loads(name) == name # MLP

\* The candidates of the param_grid the branch defines: none for NaiveBayes
\* (line 438), two stand for the grids of the other branches.
param_grid(name) == IF name = NaiveBayes THEN {} ELSE {1, 2}

\* search.best_params_: one candidate of the grid; the empty dict when the
\* grid is empty.
BestParams(grid) == IF grid = {} THEN {<<>>} ELSE {<<c>> : c \in grid}

\* json.dump at line 69.
Save(path, best_params) ==
    [p \in DOMAIN files \cup {path} |->
        IF p = path THEN best_params ELSE files[p]]

InitClassification ==
    /\ DatasetIdle
    /\ RunIdle
    /\ pc = "classification"
    /\ classifier \in Classifiers
    /\ files = NoFiles
    /\ history = <<>>

\* One call of classification(): the load (FileNotFoundError gives None),
\* "if best_params:", the search, the save at line 164 and the fit of
\* search.best_estimator_.
Classification ==
    /\ pc = "classification"
    /\ Len(history) < MaxRuns
    /\ \E id_number \in {1, 2} :
           LET found == /\ Loads(classifier)
                        /\ file_path(classifier, id_number) \in DOMAIN files
               loaded == IF found THEN files[file_path(classifier, id_number)]
                         ELSE <<>>
               use == found /\ loaded # <<>>
               grid == IF use THEN {} ELSE param_grid(classifier)
           IN  \E best_params \in BestParams(grid) :
                   /\ files' = Save(file_path(TrainName(classifier), id_number),
                                    best_params)
                   /\ history' = Append(history,
                          [id_number |-> id_number,
                           found |-> found,
                           loaded |-> loaded,
                           searched |-> grid,
                           saved |-> best_params,
                           trained |-> IF use THEN loaded ELSE best_params])
    /\ UNCHANGED <<build_vars, fn_vars, run_vars, pc, data_dim, classifier>>

NextClassification == Classification

SpecClassification == InitClassification /\ [][NextClassification]_vars

(***************************************************************************)
(* Properties of under_sample (checked under SpecFn).                      *)
(***************************************************************************)
\* The position (from 1) in the group of the row with the given label.
PositionOf(label) == CHOOSE p \in DOMAIN group.index : group.index[p] = label

ReturnedPositions == {PositionOf(indexes[j]) : j \in DOMAIN indexes}

\* C1: under_sample never returns the index of a row whose trailing
\* down_factor-row rolling maximum of predict_val is undefined: a row at a
\* position (from 0) below down_factor - 1, or one with a missing predict_val
\* among its trailing down_factor rows.
C1_RollingMaxDefined ==
    pc = "under_sampled" =>
        \A p \in ReturnedPositions :
            /\ p - 1 >= down_factor - 1
            /\ \A q \in (p - down_factor + 1)..p : group.predict_val[q] # NA

\* C2: every row with a positive predict_val that under_sample does not
\* return lies in the trailing down_factor-row window of a row it returns.
C2_NoFailureSignalLost ==
    pc = "under_sampled" =>
        \A q \in DOMAIN group.index :
            (/\ group.predict_val[q] # NA
             /\ group.predict_val[q] > 0
             /\ q \notin ReturnedPositions)
            => \E p \in ReturnedPositions : p - down_factor + 1 <= q /\ q <= p

\* The positions (from 0) the stride/offset rule names for a group of n rows.
RulePositions(n, k) ==
    {p \in 0..(n - 1) :
        /\ p % k = (n - 1) % k
        /\ (n - 1) % k <= p
        /\ p < n - TailGuard}

\* C3: for a group of n rows and factor k, under_sample returns exactly the
\* indices of the positions p with p = (n-1) mod k modulo k, (n-1) mod k <= p
\* and p < n - 7, in ascending position order; nothing when n <= 7, and never
\* one of the last 7 rows.
C3_StrideOffsetRule ==
    pc = "under_sampled" =>
        LET n == Len(group.index)
        IN  /\ {p - 1 : p \in ReturnedPositions} = RulePositions(n, down_factor)
            /\ Len(indexes) = Cardinality(RulePositions(n, down_factor))
            /\ \A a, b \in DOMAIN indexes :
                   a < b => PositionOf(indexes[a]) < PositionOf(indexes[b])
            /\ (n <= TailGuard => indexes = <<>>)
            /\ \A p \in ReturnedPositions : p <= n - TailGuard

C3_Witness ==
    /\ pc = "under_sampled"
    /\ down_factor >= 2
    /\ Len(indexes) >= 2
    /\ (Len(group.index) - 1) % down_factor # down_factor - 1

(***************************************************************************)
(* Properties of the depth (checked under SpecFn).                         *)
(***************************************************************************)
IsPrime(p) == p > 1 /\ \A d \in 2..(p - 1) : p % d # 0

\* How many times the prime p divides n.
RECURSIVE Multiplicity(_, _)
Multiplicity(p, n) == IF n % p = 0 THEN 1 + Multiplicity(p, n \div p) ELSE 0

RECURSIVE SumOver(_, _)
SumOver(S, n) ==
    IF S = {} THEN 0
    ELSE LET p == CHOOSE x \in S : TRUE
         IN  Multiplicity(p, n) * (p - 1) + SumOver(S \ {p}, n)

\* The sum of f - 1 over the prime factors f of n, with multiplicity.
PrimeFactorSum(n) == SumOver({p \in 1..n : IsPrime(p) /\ n % p = 0}, n)

CopiesEqualDepth(frame) ==
    \A row \in Range(frame.rows) : Len(row.src) = DataDim(window_dim, overlap)

\* C5: under every overlap policy, the number of stacked copies of the base
\* columns that perform_windowing puts in each row equals the depth
\* preprocess_dataset uses to reshape the row.
C5_CopiesMatchDepth ==
    /\ pc = "rename_columns" => CopiesEqualDepth(windowed_df)
    /\ pc = "hybrid_append" =>
           CopiesEqualDepth(windowed_df) /\ CopiesEqualDepth(windowed_df_failed)

\* C6: with windowing == 1 every build that returns, returns a tensor of
\* shape (num_samples, num_base_features, depth), num_base_features being the
\* number of numeric feature columns of the input table.
C6_TensorShape ==
    (pc = "done" /\ windowing = 1) =>
        X.shape = <<Len(X.rows), num_features, DataDim(window_dim, overlap)>>

\* C7: under Dynamic the shift steps of a prime factor p add the rows lying
\* s, 2s, ..., (p-1)s positions back, s being the product of the factors
\* already processed, so the copies stacked in a sample sit at pairwise
\* distinct lags.
C7_CumulativeStride ==
    overlap = Dynamic =>
        /\ pc = "dynamic_sample" =>
               \A j \in 1..(window_dim_divisors[divisor_pos] - 1) :
                   windowed_df.lags[j] =
                       (window_dim_divisors[divisor_pos] - j) * previous_down_factor
        /\ pc \in {"dynamic_shift", "dynamic_sample", "rename_columns"} =>
               \A a, b \in DOMAIN windowed_df.lags :
                   a # b => windowed_df.lags[a] # windowed_df.lags[b]

\* C8: under Full with window_dim = W, perform_windowing performs exactly
\* W - 1 shift-and-concatenate steps and leaves the row count unchanged; every
\* base column occurs W times, and for each row r and each k in 1..W-1 one of
\* the copies holds the values of row r - k (missing when r - k < 0).
C8_FullWindow ==
    (overlap = Full /\ pc = "rename_columns") =>
        /\ i = window_dim - 1
        /\ Len(windowed_df.lags) = window_dim
        /\ Labels(windowed_df) = DOMAIN df
        /\ Len(windowed_df.rows) = NumRows
        /\ \A row \in Range(windowed_df.rows) :
               /\ Len(row.src) = window_dim
               /\ row.src[window_dim] = row.ix
               /\ \A k \in 1..(window_dim - 1) :
                      \E j \in 1..(window_dim - 1) :
                          /\ windowed_df.lags[j] = k
                          /\ row.src[j] = IF row.ix - k < 0 THEN NA ELSE row.ix - k

C8_Witness ==
    /\ overlap = Full
    /\ pc = "rename_columns"
    /\ window_dim >= 3
    /\ NumRows >= 2
    /\ \E row \in Range(windowed_df.rows) : row.src[1] = NA
    /\ \E row \in Range(windowed_df.rows) : row.src[1] # NA

\* C9: under Full no sample of the output tensor combines rows of two
\* different serial numbers.
C9_OneDevicePerSample ==
    (overlap = Full /\ windowing = 1 /\ pc = "done") =>
        \A r \in DOMAIN X.rows :
            \A a, b \in Range(X.rows[r]) :
                df[a].serial_number = df[b].serial_number

\* The devices with validate_val == 1 on at least one row.
FailingSerials == {df[r].serial_number : r \in {q \in DOMAIN df : df[q].validate_val = 1}}

\* C10: under Hybrid every input row of a device that has validate_val == 1 on
\* at least one row appears in the Full sub-frame (as the unshifted block of
\* one of its rows).
C10_FailingDeviceRowsInFull ==
    (overlap = Hybrid /\ pc \in {"hybrid_shift", "hybrid_sample", "hybrid_append"}) =>
        \A r \in DOMAIN df :
            df[r].serial_number \in FailingSerials =>
                \E row \in Range(windowed_df_failed.rows) :
                    row.src[Len(row.src)] = r

\* The input rows that are the unshifted block of a row of the frame.
Anchors(frame) ==
    {row.src[Len(row.src)] : row \in Range(frame.rows)} \ {NA}

\* C11: under Hybrid the input rows are partitioned between the two
\* procedures: the Full sub-frame holds rows of eventually-failing devices
\* only, the Dynamic sub-frame holds rows of the other devices only, and no
\* input row is the anchor of a sample in both sub-frames that are
\* concatenated.
C11_SubFramesPartitionRows ==
    (overlap = Hybrid /\ pc = "hybrid_append") =>
        /\ \A r \in Anchors(windowed_df_failed) :
               df[r].serial_number \in FailingSerials
        /\ \A r \in Anchors(windowed_df) :
               df[r].serial_number \notin FailingSerials
        /\ Anchors(windowed_df_failed) \cap Anchors(windowed_df) = {}

(***************************************************************************)
(* Properties of factors (checked under SpecFn).                           *)
(***************************************************************************)
RECURSIVE Product(_)
Product(s) == IF s = <<>> THEN 1 ELSE Head(s) * Product(Tail(s))

PrimeFactorisation(list, n) ==
    /\ \A j \in DOMAIN list : IsPrime(list[j])
    /\ \A j \in 1..(Len(list) - 1) : list[j] <= list[j + 1]
    /\ Product(list) = n

\* C12: for every positive n, factors(n) returns the list of the prime
\* factors of n in non-decreasing order, whose product is n (the empty list
\* for 1, [2, 2, 3] for 12), and the copy in Dataset_processing.py and the copy
\* in Classification.py return the same list.
C12_FactorsPrimeFactorisation ==
    pc = "factors_returned" =>
        /\ PrimeFactorisation(returned.Dataset_processing, args.n)
        /\ PrimeFactorisation(returned.Classification, args.n)
        /\ returned.Dataset_processing = returned.Classification
        /\ args.n = 1 => returned.Dataset_processing = <<>>
        /\ args.n = 12 => returned.Dataset_processing = <<2, 2, 3>>

C12_Witness ==
    /\ pc = "factors_returned"
    /\ args.n = 12
    /\ returned.Dataset_processing = <<2, 2, 3>>
    /\ returned.Classification = <<2, 2, 3>>

(***************************************************************************)
(* Properties of rename_columns (checked under SpecFn).                    *)
(***************************************************************************)
\* C13: for every list of column names (any names, any multiplicities, any
\* order) the column list of the table rename_columns returns is sorted
\* lexicographically and contains no two equal names.
C13_RenamedSortedAndDistinct ==
    pc = "columns_renamed" =>
        /\ \A j \in 1..(Len(returned) - 1) : StrLeq(returned[j], returned[j + 1])
        /\ \A a, b \in DOMAIN returned : a # b => returned[a] # returned[b]

(***************************************************************************)
(* Properties of preprocess_dataset within a build (checked under Spec).   *)
(***************************************************************************)
\* C14: after step 1 of the filter (the identifier columns with a numeric
\* suffix dropped) the identifier columns that remain, the unsuffixed ones,
\* are the originals: in every row they are the identifiers of the row's own
\* anchor timestep, the unshifted input row, and not those of a shifted copy.
C14_UnsuffixedIdentifiersAreAnchor ==
    (windowing = 1 /\ pc \in {"done", "error"} /\ final_df # NoFrame) =>
        /\ final_df.lags[Unsuffixed(final_df)] = 0
        /\ \A row \in Range(final_df.rows) :
               row.src[Unsuffixed(final_df)] = row.src[Len(row.src)]

\* C15: no entry of the returned tensor is a value of the failure,
\* predict_val or validate_val column of the input, nor of a shifted copy of
\* one of them.
C15_NoLabelInTensor ==
    pc = "done" => Len(X.rows) * X.label_columns = 0

\* C16: with windowing == 0 the singleton axis is appended as the last axis:
\* the returned tensor has shape (num_samples, num_base_features, 1).
C16_SingletonAxisLast ==
    (pc = "done" /\ windowing = 0) =>
        /\ Len(X.shape) = 3
        /\ X.shape[1] = Len(X.rows)
        /\ X.shape[2] = num_features
        /\ X.shape[3] = 1

\* C17: with windowing == 0 the build bypasses perform_windowing's work: no
\* shifted copy is concatenated and no row is taken out by under-sampling,
\* and the output has exactly one sample per input row, made of that row's
\* own columns only.
C17_WindowingOffBypasses ==
    windowing = 0 =>
        /\ Len(windowed_df.lags) <= 1
        /\ Len(windowed_df_failed.lags) <= 1
        /\ windowed_df # NoFrame => Len(windowed_df.rows) = NumRows
        /\ pc = "done" =>
               /\ Len(X.rows) = NumRows
               /\ \A r \in DOMAIN X.rows : Len(X.rows[r]) = 1
               /\ {X.rows[r][1] : r \in DOMAIN X.rows} = DOMAIN df

(***************************************************************************)
(* Properties of preprocess_dataset called on a table (checked under       *)
(* SpecFn).                                                                *)
(***************************************************************************)
\* The essential columns that are not columns of the table handed over.
AbsentEssential == Range(essential_columns) \ args.df.columns

\* C18: when preprocess_dataset (windowing == 1) is given a table that lacks
\* one or more of date, serial_number, capacity_bytes, it reports the missing
\* names, skips the row dropping and does not abort: the call runs to
\* completion and returns a tensor.
C18_MissingEssentialDoesNotAbort ==
    (pc = "preprocessed" /\ windowing = 1 /\ AbsentEssential # {}) =>
        /\ Range(returned.missing_columns) = AbsentEssential
        /\ returned.rows = args.df.rows
        /\ returned.raised = ""
        /\ returned.shape # <<>>

\* The labels of a list of rows.
RowLabels(rows) == {rows[j].ix : j \in DOMAIN rows}

\* The labels of the rows step 2 removed.
RemovedByStep2 == RowLabels(args.df.rows) \ RowLabels(returned.rows)

\* C19: in step 2 the diagnostic lists exactly the essential columns that are
\* absent from the table; rows are removed by this step only when none is
\* absent, and when none is absent the rows removed are exactly those with a
\* missing value in at least one of the three columns.
C19_Step2Diagnostic ==
    pc = "preprocessed" =>
        /\ Range(returned.missing_columns) = AbsentEssential
        /\ Len(returned.missing_columns) = Cardinality(AbsentEssential)
        /\ AbsentEssential # {} => returned.rows = args.df.rows
        /\ AbsentEssential = {} =>
               /\ RemovedByStep2 =
                      {row.ix : row \in {r \in Range(args.df.rows) :
                          \E col \in Range(essential_columns) : r.cells[col] = NA}}
               /\ \A a, b \in DOMAIN returned.rows :
                      a < b => returned.rows[a].ix < returned.rows[b].ix
               /\ Range(returned.rows) \subseteq Range(args.df.rows)

C19_Witness ==
    /\ pc = "preprocessed"
    /\ AbsentEssential = {}
    /\ RemovedByStep2 # {}
    /\ returned.rows # <<>>
    /\ \E row \in Range(args.df.rows) :
           row.cells[date] # NA /\ row.cells[capacity_bytes] = NA

(***************************************************************************)
(* Properties of arrays_to_matrix (checked under SpecFn).                  *)
(***************************************************************************)
\* C20: whenever the row length is not divisible by the depth,
\* arrays_to_matrix raises, for every number of rows (zero rows included); it
\* never returns a tensor whose rows do not hold the whole row of the array.
C20_IndivisibleRowRaises ==
    pc = "matrix_returned" =>
        /\ args.shape[2] % args.wind_dim # 0 => returned = <<>>
        /\ returned # <<>> => returned[2] * returned[3] = args.shape[2]

\* A tensor flattened along its last two axes: one row per sample.
FlattenLastTwo(tensor) == [s \in DOMAIN tensor |-> ravel(tensor[s])]

\* C21: arrays_to_matrix is a bijection on its valid inputs: for an array X of
\* shape (n, F*d), flattening arrays_to_matrix(X, d) along its last two axes
\* gives X back, reshaping that flattened array with the same d gives the same
\* tensor, and entry [s, f, j] of the tensor is entry [s, f*d + j] of X.
C21_ReshapeBijection ==
    (pc = "matrix_values_returned" /\ args.shape[2] % args.wind_dim = 0) =>
        /\ ~returned.raised
        /\ returned.shape = <<args.shape[1], args.shape[2] \div args.wind_dim,
                              args.wind_dim>>
        /\ FlattenLastTwo(returned.X_new) = args.X
        /\ X_new(FlattenLastTwo(returned.X_new), args.shape, args.wind_dim) = returned
        /\ \A s \in 1..returned.shape[1], f \in 1..returned.shape[2],
              j \in 1..returned.shape[3] :
               returned.X_new[s][f][j] =
                   args.X[s][(f - 1) * args.wind_dim + (j - 1) + 1]

C21_Witness ==
    /\ pc = "matrix_values_returned"
    /\ ~returned.raised
    /\ returned.shape[1] >= 2
    /\ returned.shape[2] >= 2
    /\ returned.shape[3] >= 2
    /\ returned.X_new[2][2][1] # returned.X_new[1][2][2]

(***************************************************************************)
(* Properties of partition's normalisation (checked under Spec).           *)
(***************************************************************************)
\* The index levels and the columns of a table, as a set of names.
Fields(frame) == Range(frame.index) \cup Range(frame.columns)

\* C22: the normalisation changes nothing but the values of the numeric
\* feature columns: after it the table has the same set of columns as the
\* input (its numeric columns are the input's feature columns), the same rows
\* in the same order, and the seven identifier and label columns.
C22_NormalizerKeepsColumns ==
    pc \in {"perform_windowing", "rename_columns", "preprocess_dataset", "done"} =>
        /\ Fields(df_columns) = Fields(InputColumns(num_features, index_column))
        /\ numeric_columns = num_features
        /\ Range(temporal) \subseteq Range(df_columns.columns)
        /\ DOMAIN df = 0..(NumRows - 1)

\* C28: constructing a DatasetProcessing leaves the caller's table unchanged:
\* after the build the object the caller passed in has the same columns and
\* the same index as before.
C28_CallerTableUnchanged ==
    caller_df = InputColumns(num_features, index_column)

(***************************************************************************)
(* Properties of the under-sampling passes within a build (checked under   *)
(* Spec).                                                                  *)
(***************************************************************************)
\* The rows of the frame that a pass discarded and a later concatenation
\* brought back: the blocks the frame had when the row was discarded are
\* missing in them, the unshifted block among these.
Reappeared(frame) ==
    {row \in Range(frame.rows) : row.src[Len(row.src)] = NA}

\* C24: under Dynamic, and in the Dynamic part of Hybrid, a row discarded by
\* an under-sampling pass never reappears: the rows of the working table
\* after every later shift-and-concatenate step and every later pass are rows
\* the pass selected, and the row count never exceeds the input's.
C24_DiscardedRowsStayOut ==
    (\/ overlap = Dynamic /\ pc \in {"dynamic_shift", "dynamic_sample", "rename_columns"}
     \/ overlap = Hybrid /\ pc \in {"hybrid_shift", "hybrid_sample", "hybrid_append"}) =>
        /\ Reappeared(windowed_df) = {}
        /\ Len(windowed_df.rows) <= NumRows

(***************************************************************************)
(* The build of three devices with ten rows each (checked under            *)
(* SpecScenario).                                                          *)
(***************************************************************************)
\* The labels of the given set that belong to the device, in ascending order.
RECURSIVE Ascending(_)
Ascending(S) ==
    IF S = {} THEN <<>>
    ELSE LET least == CHOOSE x \in S : \A y \in S : x <= y
         IN  <<least>> \o Ascending(S \ {least})

DeviceLabels(S, serial) ==
    Ascending({r \in S : df[r].serial_number = serial})

\* What the stride/offset rule of under_sample retains of the rows S, device
\* by device, at factor k.
RuleRetains(S, k) ==
    UNION {{DeviceLabels(S, serial)[p + 1] :
                p \in RulePositions(Len(DeviceLabels(S, serial)), k)} :
           serial \in {df[r].serial_number : r \in S}}

\* C23: for 3 devices with 10 chronological rows each, window_dim = 4 and
\* Dynamic overlap, the build makes two under-sampling passes at factor 2, the
\* second on the rows the first retained; the rows retained are those the
\* stride/offset rule yields, and the tensor returned has shape
\* (num_retained_samples, num_base_features, 3).
C23_ThreeDevicesDynamic ==
    /\ window_dim_divisors = <<2, 2>>
    /\ (pc = "dynamic_sample" /\ divisor_pos = 2) =>
           Labels(windowed_df) = RuleRetains(DOMAIN df, 2)
    /\ pc \in {"rename_columns", "preprocess_dataset", "done"} =>
           /\ divisor_pos = 3
           /\ Labels(windowed_df) = RuleRetains(RuleRetains(DOMAIN df, 2), 2)
    /\ pc = "done" =>
           X.shape = <<Cardinality(Labels(windowed_df)), num_features, 3>>

\* C25: with windowing == 1, after step 3 of the filter no cell of the table
\* is missing, so the array returned holds no missing value; step 3 removes a
\* column if and only if it has a missing value in a row that step 2 left, and
\* a column removed is removed from every row.
C25_NoMissingAfterStep3 ==
    (pc = "preprocessed" /\ windowing = 1) =>
        /\ \A col \in returned.columns :
               \A j \in DOMAIN returned.rows : returned.rows[j].cells[col] # NA
        /\ \A col \in {c \in args.df.columns : ~MatchesPattern(c)} :
               col \notin returned.columns <=>
                   \E j \in DOMAIN returned.rows : returned.rows[j].cells[col] = NA
        /\ returned.raised = "" =>
               /\ Len(returned.X) = Len(returned.rows)
               /\ \A r \in DOMAIN returned.X :
                      /\ DOMAIN returned.X[r] = returned.columns \ Range(base_names)
                      /\ \A col \in DOMAIN returned.X[r] : returned.X[r][col] # NA

C25_Witness ==
    /\ pc = "preprocessed"
    /\ windowing = 1
    /\ returned.raised = ""
    /\ Len(returned.rows) >= 2
    /\ smart_9_raw \notin returned.columns
    /\ \E j \in DOMAIN returned.rows : returned.rows[j].cells[smart_9_raw] # NA

(***************************************************************************)
(* The layout of the tensor (checked under SpecCopies).                    *)
(***************************************************************************)
\* The columns of the array that make the slice [s, f, :] of the tensor, f
\* counted from 0.
SliceColumns(columns, f) ==
    SubSeq(columns, f * X.shape[3] + 1, (f + 1) * X.shape[3])

\* C26: in every tensor returned with windowing == 1 each slice [s, f, :] is
\* made of the stacked copies of one base column: its depth entries never
\* come from two different base columns.
C26_SliceOfOneBaseColumn ==
    (pc = "done" /\ windowing = 1 /\ X.rows # <<>>) =>
        LET columns == ArrayColumns(final_df)
        IN  /\ Len(columns) = X.shape[2] * X.shape[3]
            /\ \A f \in 0..(X.shape[2] - 1) :
                   \A a, b \in Range(SliceColumns(columns, f)) : a.base = b.base

\* C27: under Full the last axis of the tensor returned is ordered by lag for
\* every window_dim, window_dim >= 10 included: position j of a slice
\* [s, f, :] holds the copy shifted by window_dim - 1 - j rows.
C27_LastAxisOrderedByLag ==
    (pc = "done" /\ windowing = 1 /\ overlap = Full /\ X.rows # <<>>) =>
        LET columns == ArrayColumns(final_df)
        IN  \A f \in 0..(X.shape[2] - 1) :
                \A j \in 0..(X.shape[3] - 1) :
                    final_df.lags[SliceColumns(columns, f)[j + 1].block]
                        = window_dim - 1 - j

(***************************************************************************)
(* The early stop of the training loops (checked under SpecRun).           *)
(***************************************************************************)
\* The five most recent F1 after epoch k are all equal.
FiveEqual(k) ==
    /\ k >= 5
    /\ \A a \in (k - 4)..k : F1_scores[a] = F1_scores[k]

\* C29: in LSTMTrainer.run, TCNTrainer.run and MLPTrainer.run training stops
\* at the first epoch after which the five most recent F1 are all equal: no
\* epoch runs after such an epoch, and a run closed before range(1, epochs)
\* is exhausted has at least five epochs, the last five with equal F1.
C29_StopsAtFirstConstantFive ==
    /\ \A k \in 1..(Len(F1_scores) - 1) : ~FiveEqual(k)
    /\ (run_pc = "closed" /\ epoch + 1 < epochs) => FiveEqual(epoch)

(***************************************************************************)
(* The saved best parameters (checked under SpecClassification).           *)
(***************************************************************************)
\* C30: once a completed call has saved best parameters for a (classifier,
\* id_number) pair, every later call for the pair loads those parameters,
\* trains with them without a search of the grid of the branch, and leaves
\* the saved parameters as they are.
C30_LaterRunsReuseSaved ==
    \A a, b \in DOMAIN history :
        (a < b /\ history[a].id_number = history[b].id_number) =>
            /\ history[b].found
            /\ history[b].loaded = history[a].saved
            /\ history[b].trained = history[a].saved
            /\ history[b].searched = {}
            /\ history[b].saved = history[a].saved

====
